---- MODULE Spec2Model ----
(***************************************************************************)
(* Model of convert_markdown_to_html and process_regular_markdown of       *)
(* convert.py.                                                             *)
(*                                                                         *)
(* A text is a sequence of tokens and a token is a string: one character   *)
(* ("$", "(", "*", a newline, a backslash ...) or an indivisible run of    *)
(* characters that no input of the model ever splits ("begin{align}", an   *)
(* HTML tag emitted by the code, a placeholder).  Every regular expression *)
(* of the source is translated to a matcher over tokens that returns the   *)
(* index of the last token of the match starting at a position (0: none),  *)
(* and re.sub to a left-to-right scan over non-overlapping matches.        *)
(***************************************************************************)
EXTENDS Integers, Sequences, FiniteSets, TLC

(* ------------------------------ bounds -------------------------------- *)
MaxFrags == 4
MaxRefFrags == 4
MaxLines == 3
MaxCalls == 2
ManyBlocks == 11

(* ------------------------------ tokens -------------------------------- *)
BS == "\\"
NL == "\n"
SP == " "
DOLLAR == "$"
LETTER == "a"
DIGIT == "1"
REFWORD == "References"
URL == "http://u"
SCRIPT == "<script>MathJax.Hub.Queue</script>"
SPAN == "<span"
NOTMATH == " class=\"notmath\">"
CITNUM == " class=\"citation-number\">"
BRACKETC == " class=\"bracket-content\">"
ENDSPAN == "</span>"
REFDIV == "<div class=\"references\" data-mathjax=\"ignore\"><style></style>"
ENDDIV == "</div>"
AHREF == "<a href=\""
AMID == "\">"

EnvNames == {"align", "c"}
BeginTok(n) == "begin{" \o n \o "}"
EndTok(n) == "end{" \o n \o "}"
IsBegin(tok) == \E n \in EnvNames : tok = BeginTok(n)
EnvName(tok) == CHOOSE n \in EnvNames : tok = BeginTok(n)

Kinds == {"align", "env", "display", "inline"}

(* character classes of the regular expressions, read off a token *)
IsSpace(tok) == tok \in {SP, NL}
IsDigit(tok) == tok = DIGIT
HeadingOpen == {"<h1>", "<h2>", "<h3>", "<h4>"}
TagTokens == HeadingOpen \cup {"</h1>", "</h2>", "</h3>", "</h4>", "<ul>", "</ul>",
              "<blockquote>", "</blockquote>", "<strong>", "</strong>", "<em>", "</em>",
              "<p>", "</p>", "</a>", ENDSPAN, REFDIV, ENDDIV, SCRIPT}
StartsLt(tok) == tok \in TagTokens \cup {SPAN, AHREF}
EndsGt(tok) == tok \in TagTokens \cup {">", NOTMATH, CITNUM, BRACKETC, AMID}

(* ------------------------------ helpers ------------------------------- *)
FirstIdx(S) == IF S = {} THEN 0 ELSE CHOOSE j \in S : \A m \in S : j <= m

FindTok(text, k, a) == FirstIdx({j \in k..Len(text) : text[j] = a})

FindPair(text, k, a, b) ==
  FirstIdx({j \in k..(Len(text) - 1) : text[j] = a /\ text[j + 1] = b})

NoNewline(text, lo, hi) == \A j \in lo..hi : text[j] # NL

RECURSIVE Flatten(_)
Flatten(ss) == IF ss = <<>> THEN <<>> ELSE Head(ss) \o Flatten(Tail(ss))

RECURSIVE Join(_, _)
Join(ss, sep) ==
  IF ss = <<>> THEN <<>>
  ELSE IF Len(ss) = 1 THEN ss[1]
  ELSE ss[1] \o sep \o Join(Tail(ss), sep)

(* str.split(sep) for a separator of one or two tokens *)
RECURSIVE SplitOn(_, _, _, _)
SplitOn(text, sep, i, cur) ==
  IF i > Len(text) THEN <<cur>>
  ELSE IF i + Len(sep) - 1 <= Len(text) /\ SubSeq(text, i, i + Len(sep) - 1) = sep
       THEN <<cur>> \o SplitOn(text, sep, i + Len(sep), <<>>)
       ELSE SplitOn(text, sep, i + 1, Append(cur, text[i]))

Split(text, sep) == SplitOn(text, sep, 1, <<>>)

(* str.strip(): whitespace off both ends *)
Strip(s) ==
  LET keep == {j \in 1..Len(s) : ~IsSpace(s[j])}
  IN IF keep = {} THEN <<>>
     ELSE SubSeq(s, FirstIdx(keep), CHOOSE j \in keep : \A m \in keep : m <= j)

Occurrences(text, w) ==
  Cardinality({j \in 1..(Len(text) - Len(w) + 1) : SubSeq(text, j, j + Len(w) - 1) = w})

Count(text, tok) == Cardinality({j \in 1..Len(text) : text[j] = tok})

(* ------------------------- placeholder tokens ------------------------- *)
placeholder_format(block_id, kind) ==
  "MATH_PLACEHOLDER_" \o ToString(block_id) \o "_TYPE_" \o kind

(* ------------------------- extraction passes -------------------------- *)
(* r'\\begin\{align\}(.*?)\\end\{align\}', DOTALL *)
AlignMatch(text, i) ==
  IF i + 1 <= Len(text) /\ text[i] = BS /\ text[i + 1] = BeginTok("align")
  THEN LET k == FindPair(text, i + 2, BS, EndTok("align"))
       IN IF k = 0 THEN 0 ELSE k + 1
  ELSE 0

(* variant: only \begin{align} gets its star *)
AlignStarBeginOnly(content) ==
  [k \in 1..Len(content) |->
     IF k > 1 /\ content[k - 1] = BS /\ content[k] = BeginTok("align") THEN BeginTok("align*")
     ELSE content[k]]

(* content.replace('\\begin{align}', '\\begin{align*}') and the same for \end *)
AlignStar(content) ==
  [k \in 1..Len(content) |->
     IF k > 1 /\ content[k - 1] = BS /\ content[k] = BeginTok("align") THEN BeginTok("align*")
     ELSE IF k > 1 /\ content[k - 1] = BS /\ content[k] = EndTok("align") THEN EndTok("align*")
     ELSE content[k]]

(* variant: the environment is closed by the \end of any name *)
EnvMatchAnyEnd(text, i) ==
  IF i + 1 <= Len(text) /\ text[i] = BS /\ IsBegin(text[i + 1])
  THEN LET k == FirstIdx({j \in (i + 2)..(Len(text) - 1) :
                            text[j] = BS /\ \E n \in EnvNames : text[j + 1] = EndTok(n)})
       IN IF k = 0 THEN 0 ELSE k + 1
  ELSE 0

(* r'\\begin\{([^}]+)\}(.*?)\\end\{\1\}', DOTALL *)
EnvMatch(text, i) ==
  IF i + 1 <= Len(text) /\ text[i] = BS /\ IsBegin(text[i + 1])
  THEN LET k == FindPair(text, i + 2, BS, EndTok(EnvName(text[i + 1])))
       IN IF k = 0 THEN 0 ELSE k + 1
  ELSE 0

(* r'\$\$(.*?)\$\$', DOTALL *)
DisplayMatch(text, i) ==
  IF i + 1 <= Len(text) /\ text[i] = DOLLAR /\ text[i + 1] = DOLLAR
  THEN LET k == FindPair(text, i + 2, DOLLAR, DOLLAR)
       IN IF k = 0 THEN 0 ELSE k + 1
  ELSE 0

(* r'(?<!\$)\$([^$\n]+?)\$(?!\$)' *)
InlineMatch(text, i) ==
  IF text[i] = DOLLAR /\ (i = 1 \/ text[i - 1] # DOLLAR)
  THEN LET k == FindTok(text, i + 1, DOLLAR)
       IN IF k >= i + 2 /\ NoNewline(text, i + 1, k - 1)
             /\ (k = Len(text) \/ text[k + 1] # DOLLAR)
          THEN k ELSE 0
  ELSE 0

MathMatch(kind, text, i) ==
  CASE kind = "align" -> AlignMatch(text, i)
    [] kind = "env" -> EnvMatch(text, i)
    [] kind = "display" -> DisplayMatch(text, i)
    [] kind = "inline" -> InlineMatch(text, i)

(* what the callback stores: match.group(0) for the environments, the   *)
(* align one with its name starred; match.group(1) for display, inline  *)
MathContent(kind, text, i, j) ==
  CASE kind = "align" -> AlignStar(SubSeq(text, i, j))
    [] kind = "env" -> SubSeq(text, i, j)
    [] kind = "display" -> SubSeq(text, i + 2, j - 2)
    [] kind = "inline" -> SubSeq(text, i + 1, j - 1)

(* variant: every kind of block counts its own indices *)
block_idOfKind(blocks, kind) ==
  Cardinality({b \in 1..Len(blocks) : blocks[b][1] = kind})

(* block_id = len(math_blocks), in each of the four callbacks *)
block_id(blocks, kind) == Len(blocks)

(* re.sub(pattern, extract_<kind>, markdown_text): each match appends a    *)
(* block, raises has_math and leaves the placeholder of index             *)
(* len(math_blocks) in the text                                           *)
RECURSIVE ExtractFrom(_, _, _, _, _, _)
ExtractFrom(kind, text, i, out, blocks, hm) ==
  IF i > Len(text) THEN [text |-> out, blocks |-> blocks, has_math |-> hm]
  ELSE LET j == MathMatch(kind, text, i)
       IN IF j = 0
          THEN ExtractFrom(kind, text, i + 1, Append(out, text[i]), blocks, hm)
          ELSE ExtractFrom(kind, text, j + 1,
                           Append(out, placeholder_format(block_id(blocks, kind), kind)),
                           Append(blocks, <<kind, MathContent(kind, text, i, j)>>),
                           TRUE)

Extract(kind, text, blocks, hm) == ExtractFrom(kind, text, 1, <<>>, blocks, hm)

(* ------------------------- re.sub, rule by rule ----------------------- *)
(* the pattern \( ([^)]* ) \) of the parenthesis guard and of rule 4 of the references *)
ParenMatch(text, i) ==
  IF text[i] = "(" THEN FindTok(text, i + 1, ")") ELSE 0

(* r'\[(\d+)\]', the citation guard and rule 2 of the references *)
CitationMatch(text, i) ==
  IF text[i] = "["
  THEN LET k == FirstIdx({j \in (i + 1)..Len(text) : ~IsDigit(text[j])})
       IN IF k >= i + 2 /\ text[k] = "]" THEN k ELSE 0
  ELSE 0

(* r'\*\*(.+?)\*\*' *)
BoldMatch(text, i) ==
  IF i + 1 <= Len(text) /\ text[i] = "*" /\ text[i + 1] = "*"
  THEN LET k == FirstIdx({j \in (i + 3)..(Len(text) - 1) :
                            /\ text[j] = "*" /\ text[j + 1] = "*"
                            /\ NoNewline(text, i + 2, j - 1)})
       IN IF k = 0 THEN 0 ELSE k + 1
  ELSE 0

(* r'(?<!\()\*(.+?)\*(?!\))' *)
ItalicMatch(text, i) ==
  IF text[i] = "*" /\ (i = 1 \/ text[i - 1] # "(")
  THEN FirstIdx({j \in (i + 2)..Len(text) :
                   /\ text[j] = "*"
                   /\ NoNewline(text, i + 1, j - 1)
                   /\ (j = Len(text) \/ text[j + 1] # ")")})
  ELSE 0

(* r'\[(.+?)\]\((.+?)\)': the index of "]" for the match starting at i *)
LinkMid(text, i) ==
  IF text[i] = "["
  THEN FirstIdx({k \in (i + 2)..(Len(text) - 1) :
                   /\ text[k] = "]" /\ text[k + 1] = "("
                   /\ NoNewline(text, i + 1, k - 1)
                   /\ \E m \in (k + 3)..Len(text) :
                         text[m] = ")" /\ NoNewline(text, k + 2, m - 1)})
  ELSE 0

LinkMatch(text, i) ==
  LET k == LinkMid(text, i)
  IN IF k = 0 THEN 0
     ELSE FirstIdx({m \in (k + 3)..Len(text) :
                      text[m] = ")" /\ NoNewline(text, k + 2, m - 1)})

(* the pattern \[ ( [^\]0-9] [^\]]* ) \] of rule 3 of the references *)
BracketMatch(text, i) ==
  IF i + 1 <= Len(text) /\ text[i] = "[" /\ text[i + 1] # "]" /\ ~IsDigit(text[i + 1])
  THEN FindTok(text, i + 2, "]")
  ELSE 0

(* r'(https?://\S+)': \S+ stops at the first character that is whitespace *)
StartsWithSpace(tok) == tok \in {SP, NL, NOTMATH, CITNUM, BRACKETC}

UrlMatch(text, i) ==
  IF text[i] = URL
  THEN LET k == FirstIdx({j \in (i + 1)..Len(text) : StartsWithSpace(text[j])})
       IN IF k = 0 THEN Len(text) ELSE k - 1
  ELSE 0

RuleMatch(rule, text, i) ==
  CASE rule \in {"paren", "refparen"} -> ParenMatch(text, i)
    [] rule \in {"citation", "refnum"} -> CitationMatch(text, i)
    [] rule = "bold" -> BoldMatch(text, i)
    [] rule = "italic" -> ItalicMatch(text, i)
    [] rule = "link" -> LinkMatch(text, i)
    [] rule = "refbracket" -> BracketMatch(text, i)
    [] rule = "refurl" -> UrlMatch(text, i)

(* the replacement of the match text[i..j] *)
RuleRepl(rule, text, i, j) ==
  LET inner == SubSeq(text, i + 1, j - 1)
  IN CASE rule = "paren" -> <<SPAN, NOTMATH, "(">> \o inner \o <<")", ENDSPAN>>
       [] rule = "citation" -> <<SPAN, NOTMATH, "[">> \o inner \o <<"]", ENDSPAN>>
       [] rule = "bold" -> <<"<strong>">> \o SubSeq(text, i + 2, j - 2) \o <<"</strong>">>
       [] rule = "italic" -> <<"<em>">> \o inner \o <<"</em>">>
       [] rule = "link" ->
            LET k == LinkMid(text, i)
            IN <<AHREF>> \o SubSeq(text, k + 2, j - 1) \o <<AMID>>
               \o SubSeq(text, i + 1, k - 1) \o <<"</a>">>
       [] rule = "refnum" ->
            <<SPAN, CITNUM, SPAN, BRACKETC, "[", "<em>", "<strong>">> \o inner
            \o <<"</strong>", "</em>", "]", ENDSPAN, ENDSPAN>>
       [] rule = "refbracket" ->
            <<SPAN, BRACKETC, "[", "<em>">> \o inner \o <<"</em>", "]", ENDSPAN>>
       [] rule = "refparen" -> <<"&#40;">> \o inner \o <<"&#41;">>
       [] rule = "refurl" ->
            <<AHREF>> \o SubSeq(text, i, j) \o <<AMID>> \o SubSeq(text, i, j) \o <<"</a>">>

RECURSIVE SubFrom(_, _, _, _)
SubFrom(rule, text, i, out) ==
  IF i > Len(text) THEN out
  ELSE LET j == RuleMatch(rule, text, i)
       IN IF j = 0 THEN SubFrom(rule, text, i + 1, Append(out, text[i]))
          ELSE SubFrom(rule, text, j + 1, out \o RuleRepl(rule, text, i, j))

Sub(rule, text) == SubFrom(rule, text, 1, <<>>)

(* str.replace(old, new) for a one-token old *)
ReplaceAll(text, tok, repl) ==
  Flatten([k \in 1..Len(text) |-> IF text[k] = tok THEN repl ELSE <<text[k]>>])

(* r'^#{n} (.+)$' with MULTILINE, for n = 1..levels, applied line by line *)
HeadingLevel(line, levels) ==
  FirstIdx({n \in 1..levels :
              /\ Len(line) >= n + 2
              /\ \A j \in 1..n : line[j] = "#"
              /\ line[n + 1] = SP})

HeadingLine(line, levels) ==
  LET n == HeadingLevel(line, levels)
  IN IF n = 0 THEN line
     ELSE <<"<h" \o ToString(n) \o ">">> \o SubSeq(line, n + 2, Len(line))
          \o <<"</h" \o ToString(n) \o ">">>

Headings(text, levels) ==
  LET ls == Split(text, <<NL>>)
  IN Join([k \in 1..Len(ls) |-> HeadingLine(ls[k], levels)], <<NL>>)

(* ---------------------- process_regular_markdown --------------------- *)
(* str.lstrip('>') *)
LStripGt(s) ==
  LET keep == {j \in 1..Len(s) : s[j] # ">"}
  IN IF keep = {} THEN <<>> ELSE SubSeq(s, FirstIdx(keep), Len(s))

(* one iteration of the loop over lines; st holds in_list, in_blockquote *)
(* and result (a sequence of lines)                                     *)
ScanStep(line, st) ==
  LET s == Strip(line)
  IN IF s # <<>> /\ s[1] = ">"
     THEN [in_list |-> st.in_list,
           in_blockquote |-> TRUE,
           result |-> (IF st.in_blockquote THEN st.result
                       ELSE Append(st.result, <<"<blockquote>">>))
                      \o <<Strip(LStripGt(s))>>]
     ELSE LET r1 == IF st.in_blockquote THEN Append(st.result, <<"</blockquote>">>)
                    ELSE st.result
              is_list_item == Len(s) >= 2 /\ s[1] = "-" /\ s[2] = SP
          IN IF is_list_item
             THEN [in_list |-> TRUE,
                   in_blockquote |-> FALSE,
                   result |-> (IF st.in_list THEN r1 ELSE Append(r1, <<"<ul>">>))
                              \o <<(<<"<li>">> \o SubSeq(s, 3, Len(s)) \o <<"</li>">>)>>]
             ELSE [in_list |-> FALSE,
                   in_blockquote |-> FALSE,
                   result |-> Append(IF st.in_list THEN Append(r1, <<"</ul>">>) ELSE r1,
                                     line)]

(* variant: the list wrapper is not closed at the end of the input *)
CloseOpenNoList(res, inl, inb) ==
  IF inb THEN Append(res, <<"</blockquote>">>) ELSE res

(* the two ifs after the loop: the flags are read, not reset *)
CloseOpen(res, inl, inb) ==
  LET r1 == IF inl THEN Append(res, <<"</ul>">>) ELSE res
  IN IF inb THEN Append(r1, <<"</blockquote>">>) ELSE r1

(* variant: italic is converted before bold *)
InlineFormattingItalicFirst(t) == Sub("link", Sub("bold", Sub("italic", t)))

(* bold, then italic, then links *)
InlineFormatting(t) == Sub("link", Sub("italic", Sub("bold", t)))

ParagraphOf(p) ==
  LET t == Strip(p)
  IN IF t # <<>> /\ ~StartsLt(t[1]) /\ ~EndsGt(t[Len(t)])
     THEN <<"<p>">> \o t \o <<"</p>">>
     ELSE p

WrapParagraphs(t) ==
  LET ps == Split(t, <<NL, NL>>)
  IN Join([k \in 1..Len(ps) |-> ParagraphOf(ps[k])], <<NL>>)

(* ------------------------- references section ------------------------- *)
(* the first line start where r'^(#+)\s+References:?.*$' matches, or 0 *)
RefHeadingAt(t, i) ==
  /\ (i = 1 \/ t[i - 1] = NL)
  /\ t[i] = "#"
  /\ LET h == FirstIdx({j \in i..Len(t) : t[j] # "#"})
     IN /\ h # 0
        /\ IsSpace(t[h])
        /\ LET w == FirstIdx({j \in h..Len(t) : ~IsSpace(t[j])})
           IN w # 0 /\ t[w] = REFWORD

(* variant: the text is split at the last References heading *)
RefHeadingIdxLast(t) ==
  LET S == {i \in 1..Len(t) : RefHeadingAt(t, i)}
  IN IF S = {} THEN 0 ELSE CHOOSE i \in S : \A j \in S : j <= i

RefHeadingIdx(t) == FirstIdx({i \in 1..Len(t) : RefHeadingAt(t, i)})

FirstCharIs(tok, c) ==
  CASE c = "<" -> StartsLt(tok)
    [] c = ">" -> tok = ">"
    [] c = "/" -> tok = "/"

(* str.replace('\\' + c, c) *)
Unescape(t, c) ==
  LET drop == {k \in 1..(Len(t) - 1) : t[k] = BS /\ FirstCharIs(t[k + 1], c)}
  IN Flatten([k \in 1..Len(t) |-> IF k \in drop THEN <<>> ELSE <<t[k]>>])

RefParagraph(p) ==
  IF Strip(p) # <<>> /\ Strip(p)[1] \notin HeadingOpen
  THEN <<"<p>">> \o p \o <<"</p>">>
  ELSE p

(* variant: the references reuse the citation guard of the main body *)
FormatRefCitationsAsMain(t) == Sub("citation", t)

(* rule 2 of the references: the numeric citations get the citation-number span *)
FormatRefCitations(t) == Sub("refnum", t)

ProcessReferences(refs) ==
  LET h == Headings(refs, 3)
      n == FormatRefCitations(h)
      b == Sub("refbracket", n)
      q == Sub("refparen", b)
      u == Unescape(Unescape(Unescape(q, "<"), ">"), "/")
      l == Sub("refurl", u)
      ps == Split(l, <<NL, NL>>)
      w == Join([k \in 1..Len(ps) |-> RefParagraph(ps[k])], <<NL>>)
  IN <<REFDIV>> \o w \o <<ENDDIV>>

(* ----------------------------- restitution ---------------------------- *)
(* variant: the backslashes are not doubled *)
EscapedNoDoubling(content) == content

(* content.replace('\\', '\\\\') *)
Escaped(content) == ReplaceAll(content, BS, <<BS, BS>>)

Rewrap(block) ==
  IF block[1] \in {"align", "env", "display"}
  THEN <<DOLLAR, DOLLAR>> \o Escaped(block[2]) \o <<DOLLAR, DOLLAR>>
  ELSE <<DOLLAR>> \o Escaped(block[2]) \o <<DOLLAR>>

RestoreBlock(t, i, block) ==
  ReplaceAll(t, placeholder_format(i, block[1]), Rewrap(block))

(* variant: the references container is put before the main body *)
PrependReferences(main, processed_references) == processed_references \o main

(* markdown_text += processed_references *)
AppendReferences(main, processed_references) == main \o processed_references

(* variant: the script is appended whether or not math was found *)
WithScriptAlways(t, hm) == Append(t, SCRIPT)

WithScript(t, hm) == IF hm THEN Append(t, SCRIPT) ELSE t

(* ------------------------------- inputs ------------------------------- *)
(* inputs are built from fragments, in four families: math constructs   *)
(* side by side and nested; math next to the text the guards and the   *)
(* renderer act on; a body followed by a References section; lines of  *)
(* list items, blockquotes, headings and plain text; and a few single  *)
(* texts (Examples)                                                    *)
NestFrags ==
  {<<LETTER>>, <<DOLLAR>>, <<DOLLAR, DOLLAR>>,
   <<BS, BeginTok("align")>>, <<BS, EndTok("align")>>,
   <<BS, BeginTok("c")>>, <<BS, EndTok("c")>>}

GuardFrags ==
  {<<LETTER>>, <<DOLLAR>>, <<DOLLAR, DOLLAR>>,
   <<"*">>, <<"(">>, <<")">>, <<"[", DIGIT, "]">>, <<NL>>}

RefFrags ==
  {<<LETTER>>, <<"[", DIGIT, "]">>, <<"[", LETTER, "]">>, <<"(", LETTER, ")">>,
   <<NL>>, <<"#", SP, REFWORD>>, <<URL>>, <<DOLLAR, LETTER, DOLLAR>>}

LineKinds ==
  {<<"-", SP, LETTER>>, <<">", SP, LETTER>>, <<LETTER>>, <<>>,
   <<"#", SP, LETTER>>, <<"*", LETTER, "*">>}

(* single texts: the sentence "**bold** and *italic* (keep (this) plain)", *)
(* a starred run inside parentheses, alone and before another starred    *)
(* run, a markdown link, many inline expressions, and three headings:    *)
(* "# References a a", "#" and "References a" on two lines, and          *)
(* "## References:"                                                      *)
EmphasisExample ==
  <<"*", "*", LETTER, "*", "*", SP, LETTER, SP, "*", LETTER, "*", SP,
    "(", LETTER, SP, "(", LETTER, ")", SP, LETTER, ")">>

LinkExample == <<"[", LETTER, "]", "(", LETTER, ")">>

(* "$a$ $a$ ... ": enough inline expressions for two-digit indices *)
ManyBlocksExample == Flatten([k \in 1..ManyBlocks |-> <<DOLLAR, LETTER, DOLLAR, SP>>])

Examples ==
  {EmphasisExample,
   <<"(", "*", LETTER, "*", ")">>,
   <<"(", "*", LETTER, "*", ")", SP, "*", LETTER, "*">>,
   LinkExample,
   <<LETTER, SP>> \o LinkExample \o <<SP, LETTER>>,
   ManyBlocksExample,
   <<"#", SP, REFWORD, SP, LETTER, SP, LETTER>>,
   <<LETTER, NL, "#", NL, REFWORD, SP, LETTER>>,
   <<LETTER, NL, "#", "#", SP, REFWORD, ":", NL, "[", DIGIT, "]">>}

(* the texts made of at most n fragments of F *)
FromFrags(t, F, n) == \E m \in 0..n : \E fs \in [1..m -> F] : t = Flatten(fs)

(* the texts made of at most n lines of L *)
FromLines(t, L, n) == \E m \in 0..n : \E ls \in [1..m -> L] : t = Join(ls, <<NL>>)

IsInput(t) ==
  \/ FromFrags(t, NestFrags, MaxFrags)
  \/ FromFrags(t, GuardFrags, MaxFrags)
  \/ FromFrags(t, RefFrags, MaxRefFrags)
  \/ FromLines(t, LineKinds, MaxLines)
  \/ t \in Examples

(* ------------------------------- state -------------------------------- *)
(* the locals of one invocation and its position, and, for invocations *)
(* that run side by side, one frame of the same locals per invocation  *)
VARIABLES pc, input, markdown_text, references_section, math_blocks, has_math,
          text, lines, line_no, in_list, in_blockquote, result, block_i, calls,
          nb, new_nb, title, title_cell_index, cell_no, nb_pc

vars == <<pc, input, markdown_text, references_section, math_blocks, has_math,
          text, lines, line_no, in_list, in_blockquote, result, block_i, calls,
          nb, new_nb, title, title_cell_index, cell_no, nb_pc>>

(* the locals of convert_notebook_to_voila: the cells read, the cells *)
(* written so far, the title found and the position in the cell loop  *)
notebookVars == <<nb, new_nb, title, title_cell_index, cell_no, nb_pc>>

(* no notebook is being converted *)
NoNotebook ==
  /\ nb = <<>>
  /\ new_nb = <<>>
  /\ title = <<>>
  /\ title_cell_index = 0
  /\ cell_no = 0
  /\ nb_pc = "idle"

frameVars == <<pc, input, markdown_text, references_section, math_blocks, has_math,
               text, lines, line_no, in_list, in_blockquote, result, block_i>>

convertVars == <<markdown_text, references_section, math_blocks, has_math, block_i>>
renderVars == <<text, lines, line_no, in_list, in_blockquote, result>>

(* variant: the parenthesis guard runs before the extraction passes *)
StageAfterGuardFirst(p) ==
  CASE p = "split" -> "paren"
    [] p = "paren" -> "align"
    [] p = "align" -> "env"
    [] p = "env" -> "display"
    [] p = "display" -> "inline"
    [] p = "inline" -> "render"
    [] p = "render" -> "scan"
    [] p = "scan" -> "format"
    [] p = "format" -> "paragraphs"
    [] p = "paragraphs" -> "citation"
    [] p = "citation" -> "references"
    [] p = "references" -> "restore"
    [] p = "restore" -> "done"

(* variant: the parenthesis guard runs on the renderer's output, next to *)
(* the citation guard                                                   *)
StageAfterGuardsLast(p) ==
  CASE p = "split" -> "align"
    [] p = "align" -> "env"
    [] p = "env" -> "display"
    [] p = "display" -> "inline"
    [] p = "inline" -> "render"
    [] p = "render" -> "scan"
    [] p = "scan" -> "format"
    [] p = "format" -> "paragraphs"
    [] p = "paragraphs" -> "paren"
    [] p = "paren" -> "citation"
    [] p = "citation" -> "references"
    [] p = "references" -> "restore"
    [] p = "restore" -> "done"

(* variant: the align pass runs after the other three extraction passes *)
StageAfterAlignLast(p) ==
  CASE p = "split" -> "env"
    [] p = "env" -> "display"
    [] p = "display" -> "inline"
    [] p = "inline" -> "align"
    [] p = "align" -> "paren"
    [] p = "paren" -> "render"
    [] p = "render" -> "scan"
    [] p = "scan" -> "format"
    [] p = "format" -> "paragraphs"
    [] p = "paragraphs" -> "citation"
    [] p = "citation" -> "references"
    [] p = "references" -> "restore"
    [] p = "restore" -> "done"

(* the order of the statements of convert_markdown_to_html and of *)
(* process_regular_markdown, which it calls between the two guards *)
StageAfter(p) ==
  CASE p = "split" -> "align"
    [] p = "align" -> "env"
    [] p = "env" -> "display"
    [] p = "display" -> "inline"
    [] p = "inline" -> "paren"
    [] p = "paren" -> "render"
    [] p = "render" -> "scan"
    [] p = "scan" -> "format"
    [] p = "format" -> "paragraphs"
    [] p = "paragraphs" -> "citation"
    [] p = "citation" -> "references"
    [] p = "references" -> "restore"
    [] p = "restore" -> "done"

Init ==
  /\ IsInput(input)
  /\ markdown_text = input
  /\ pc = "split"
  /\ references_section = <<>>
  /\ math_blocks = <<>>
  /\ has_math = FALSE
  /\ text = <<>>
  /\ lines = <<>>
  /\ line_no = 1
  /\ in_list = FALSE
  /\ in_blockquote = FALSE
  /\ result = <<>>
  /\ block_i = 0
  /\ calls = <<>>
  /\ NoNotebook

SplitReferences ==
  /\ pc = "split"
  /\ LET i == RefHeadingIdx(markdown_text)
     IN /\ markdown_text' = IF i = 0 THEN markdown_text ELSE SubSeq(markdown_text, 1, i - 1)
        /\ references_section' =
             IF i = 0 THEN <<>> ELSE SubSeq(markdown_text, i, Len(markdown_text))
  /\ pc' = StageAfter(pc)
  /\ UNCHANGED <<notebookVars, calls, input, math_blocks, has_math, block_i, renderVars>>

ExtractPass(kind) ==
  /\ pc = kind
  /\ LET r == Extract(kind, markdown_text, math_blocks, has_math)
     IN /\ markdown_text' = r.text
        /\ math_blocks' = r.blocks
        /\ has_math' = r.has_math
  /\ pc' = StageAfter(pc)
  /\ UNCHANGED <<notebookVars, calls, input, references_section, block_i, renderVars>>

ExtractAlign == pc = "align" /\ ExtractPass("align")
ExtractOtherEnv == pc = "env" /\ ExtractPass("env")
ExtractDisplay == pc = "display" /\ ExtractPass("display")
ExtractInline == pc = "inline" /\ ExtractPass("inline")

ParenGuard ==
  /\ pc = "paren"
  /\ markdown_text' = Sub("paren", markdown_text)
  /\ pc' = StageAfter(pc)
  /\ UNCHANGED <<notebookVars, calls, input, references_section, math_blocks, has_math, block_i, renderVars>>

(* process_regular_markdown is entered: headings, split into lines *)
RenderHeadings ==
  /\ pc = "render"
  /\ text' = Headings(markdown_text, 4)
  /\ lines' = Split(text', <<NL>>)
  /\ line_no' = 1
  /\ in_list' = FALSE
  /\ in_blockquote' = FALSE
  /\ result' = <<>>
  /\ pc' = StageAfter(pc)
  /\ UNCHANGED <<notebookVars, calls, input, convertVars>>

ScanLine ==
  /\ pc = "scan"
  /\ line_no <= Len(lines)
  /\ LET st == ScanStep(lines[line_no],
                        [in_list |-> in_list, in_blockquote |-> in_blockquote,
                         result |-> result])
     IN /\ in_list' = st.in_list
        /\ in_blockquote' = st.in_blockquote
        /\ result' = st.result
  /\ line_no' = line_no + 1
  /\ UNCHANGED <<notebookVars, calls, pc, input, convertVars, text, lines>>

ScanEnd ==
  /\ pc = "scan"
  /\ line_no > Len(lines)
  /\ result' = CloseOpen(result, in_list, in_blockquote)
  /\ text' = Join(result', <<NL>>)
  /\ pc' = StageAfter(pc)
  /\ UNCHANGED <<notebookVars, calls, input, convertVars, lines, line_no, in_list, in_blockquote>>

InlineFormat ==
  /\ pc = "format"
  /\ text' = InlineFormatting(text)
  /\ pc' = StageAfter(pc)
  /\ UNCHANGED <<notebookVars, calls, input, convertVars, lines, line_no, in_list, in_blockquote, result>>

(* the paragraphs are wrapped and process_regular_markdown returns *)
RenderParagraphs ==
  /\ pc = "paragraphs"
  /\ text' = WrapParagraphs(text)
  /\ markdown_text' = text'
  /\ pc' = StageAfter(pc)
  /\ UNCHANGED <<notebookVars, calls, input, references_section, math_blocks, has_math, block_i,
                 lines, line_no, in_list, in_blockquote, result>>

CitationGuard ==
  /\ pc = "citation"
  /\ markdown_text' = Sub("citation", markdown_text)
  /\ pc' = StageAfter(pc)
  /\ UNCHANGED <<notebookVars, calls, input, references_section, math_blocks, has_math, block_i, renderVars>>

References ==
  /\ pc = "references"
  /\ markdown_text' = IF references_section # <<>>
                      THEN AppendReferences(markdown_text,
                                            ProcessReferences(references_section))
                      ELSE markdown_text
  /\ block_i' = 0
  /\ pc' = StageAfter(pc)
  /\ UNCHANGED <<notebookVars, calls, input, references_section, math_blocks, has_math, renderVars>>

Restore ==
  /\ pc = "restore"
  /\ block_i < Len(math_blocks)
  /\ markdown_text' = RestoreBlock(markdown_text, block_i, math_blocks[block_i + 1])
  /\ block_i' = block_i + 1
  /\ UNCHANGED <<notebookVars, calls, pc, input, references_section, math_blocks, has_math, renderVars>>

Finish ==
  /\ pc = "restore"
  /\ block_i = Len(math_blocks)
  /\ markdown_text' = WithScript(markdown_text, has_math)
  /\ pc' = StageAfter(pc)
  /\ UNCHANGED <<notebookVars, calls, input, references_section, math_blocks, has_math, block_i, renderVars>>

Next ==
  \/ SplitReferences
  \/ ExtractAlign
  \/ ExtractOtherEnv
  \/ ExtractDisplay
  \/ ExtractInline
  \/ ParenGuard
  \/ RenderHeadings
  \/ ScanLine
  \/ ScanEnd
  \/ InlineFormat
  \/ RenderParagraphs
  \/ CitationGuard
  \/ References
  \/ Restore
  \/ Finish

Spec == Init /\ [][Next]_vars

(* ----------------------- invocations side by side --------------------- *)
(* the locals of an invocation that has just been entered with text t *)
InitFrame(t) ==
  [pc |-> "split", input |-> t, markdown_text |-> t, references_section |-> <<>>,
   math_blocks |-> <<>>, has_math |-> FALSE, text |-> <<>>, lines |-> <<>>,
   line_no |-> 1, in_list |-> FALSE, in_blockquote |-> FALSE, result |-> <<>>,
   block_i |-> 0]

(* the next statement of an invocation, on its frame s: the actions above, *)
(* written on a frame                                                      *)
Step(s) ==
  CASE s.pc = "split" ->
         LET i == RefHeadingIdx(s.markdown_text)
         IN [s EXCEPT !.markdown_text = IF i = 0 THEN @ ELSE SubSeq(@, 1, i - 1),
                      !.references_section =
                        IF i = 0 THEN <<>>
                        ELSE SubSeq(s.markdown_text, i, Len(s.markdown_text)),
                      !.pc = StageAfter(s.pc)]
    [] s.pc \in Kinds ->
         LET r == Extract(s.pc, s.markdown_text, s.math_blocks, s.has_math)
         IN [s EXCEPT !.markdown_text = r.text, !.math_blocks = r.blocks,
                      !.has_math = r.has_math, !.pc = StageAfter(s.pc)]
    [] s.pc = "paren" ->
         [s EXCEPT !.markdown_text = Sub("paren", @), !.pc = StageAfter(s.pc)]
    [] s.pc = "render" ->
         LET h == Headings(s.markdown_text, 4)
         IN [s EXCEPT !.text = h, !.lines = Split(h, <<NL>>), !.line_no = 1,
                      !.in_list = FALSE, !.in_blockquote = FALSE, !.result = <<>>,
                      !.pc = StageAfter(s.pc)]
    [] s.pc = "scan" /\ s.line_no <= Len(s.lines) ->
         LET st == ScanStep(s.lines[s.line_no],
                            [in_list |-> s.in_list, in_blockquote |-> s.in_blockquote,
                             result |-> s.result])
         IN [s EXCEPT !.in_list = st.in_list, !.in_blockquote = st.in_blockquote,
                      !.result = st.result, !.line_no = @ + 1]
    [] s.pc = "scan" /\ s.line_no > Len(s.lines) ->
         LET r == CloseOpen(s.result, s.in_list, s.in_blockquote)
         IN [s EXCEPT !.result = r, !.text = Join(r, <<NL>>), !.pc = StageAfter(s.pc)]
    [] s.pc = "format" ->
         [s EXCEPT !.text = InlineFormatting(@), !.pc = StageAfter(s.pc)]
    [] s.pc = "paragraphs" ->
         LET w == WrapParagraphs(s.text)
         IN [s EXCEPT !.text = w, !.markdown_text = w, !.pc = StageAfter(s.pc)]
    [] s.pc = "citation" ->
         [s EXCEPT !.markdown_text = Sub("citation", @), !.pc = StageAfter(s.pc)]
    [] s.pc = "references" ->
         [s EXCEPT !.markdown_text =
                     IF s.references_section # <<>>
                     THEN AppendReferences(@, ProcessReferences(s.references_section))
                     ELSE @,
                   !.block_i = 0, !.pc = StageAfter(s.pc)]
    [] s.pc = "restore" /\ s.block_i < Len(s.math_blocks) ->
         [s EXCEPT !.markdown_text =
                     RestoreBlock(@, s.block_i, s.math_blocks[s.block_i + 1]),
                   !.block_i = @ + 1]
    [] s.pc = "restore" /\ s.block_i >= Len(s.math_blocks) ->
         [s EXCEPT !.markdown_text = WithScript(@, s.has_math), !.pc = StageAfter(s.pc)]
    [] s.pc = "done" -> s

(* variant: math_blocks is one list shared by the invocations *)
SharedBlocksFrame(cs, c) == [cs[c] EXCEPT !.math_blocks = cs[1].math_blocks]

(* the frame the statements of invocation c read and write: math_blocks, *)
(* has_math, in_list, in_blockquote ... are locals, made anew per call    *)
OwnFrame(cs, c) == cs[c]

(* the texts the invocations that run side by side are entered with *)
CallInputs ==
  {<<DOLLAR, LETTER, DOLLAR>>,
   <<BS, BeginTok("c"), LETTER, BS, EndTok("c"), DOLLAR, DOLLAR, LETTER, DOLLAR, DOLLAR>>,
   <<"-", SP, LETTER, NL, ">", SP, LETTER, NL, "#", SP, REFWORD, NL, "[", DIGIT, "]">>}

InitCalls ==
  /\ calls \in [1..MaxCalls -> {InitFrame(t) : t \in CallInputs}]
  /\ pc = "done"
  /\ input = <<>>
  /\ markdown_text = <<>>
  /\ references_section = <<>>
  /\ math_blocks = <<>>
  /\ has_math = FALSE
  /\ text = <<>>
  /\ lines = <<>>
  /\ line_no = 1
  /\ in_list = FALSE
  /\ in_blockquote = FALSE
  /\ result = <<>>
  /\ block_i = 0
  /\ NoNotebook

(* invocation c executes its next statement *)
CallStep(c) ==
  /\ calls[c].pc # "done"
  /\ calls' = [calls EXCEPT ![c] = Step(OwnFrame(calls, c))]
  /\ UNCHANGED <<frameVars, notebookVars>>

NextCalls == \E c \in 1..MaxCalls : CallStep(c)

SpecCalls == InitCalls /\ [][NextCalls]_vars

(* ------------- inputs that spell a placeholder themselves -------------- *)
(* texts whose plain words include the characters of the placeholder the *)
(* first inline block of a call gets                                     *)
LiteralFrags ==
  {<<LETTER>>, <<DOLLAR>>, <<NL>>, <<placeholder_format(0, "inline")>>}

InitLiteral ==
  /\ FromFrags(input, LiteralFrags, MaxFrags)
  /\ markdown_text = input
  /\ pc = "split"
  /\ references_section = <<>>
  /\ math_blocks = <<>>
  /\ has_math = FALSE
  /\ text = <<>>
  /\ lines = <<>>
  /\ line_no = 1
  /\ in_list = FALSE
  /\ in_blockquote = FALSE
  /\ result = <<>>
  /\ block_i = 0
  /\ calls = <<>>
  /\ NoNotebook

SpecLiteral == InitLiteral /\ [][Next]_vars

(* -------------------------- notebook conversion ------------------------ *)
(* convert_notebook_to_voila.  The source of a cell is a text of one-      *)
(* character tokens, written here as a string and cut into its characters. *)
MaxCells == 2

Chars(str) == [k \in 1..Len(str) |-> SubSeq(str, k, k)]

(* a literal word of a pattern, or of an "in" test, at position i *)
WordAt(code, i, w) ==
  /\ i >= 1
  /\ i + Len(w) - 1 <= Len(code)
  /\ SubSeq(code, i, i + Len(w) - 1) = Chars(w)

Contains(code, w) == \E i \in 1..Len(code) : WordAt(code, i, w)

(* \s* from position i: the position of the first token that is no space *)
RECURSIVE SkipSpace(_, _)
SkipSpace(code, i) ==
  IF i <= Len(code) /\ IsSpace(code[i]) THEN SkipSpace(code, i + 1) ELSE i

SpaceAt(code, i) == i >= 1 /\ i <= Len(code) /\ IsSpace(code[i])

(* ^ under re.MULTILINE *)
LineStart(code, i) == i = 1 \/ (i > 1 /\ i <= Len(code) + 1 /\ code[i - 1] = NL)

LowerCase == Chars("abcdefghijklmnopqrstuvwxyz")
UpperCase == Chars("ABCDEFGHIJKLMNOPQRSTUVWXYZ")
IsDecimal(ch) == ch \in {"0", "1", "2", "3", "4", "5", "6", "7", "8", "9"}
(* \w *)
IsWordChar(ch) ==
  \/ \E k \in 1..26 : ch = LowerCase[k] \/ ch = UpperCase[k]
  \/ IsDecimal(ch)
  \/ ch = "_"

(* str.upper() *)
upper(s) ==
  [k \in 1..Len(s) |->
     IF \E m \in 1..26 : s[k] = LowerCase[m]
     THEN UpperCase[CHOOSE m \in 1..26 : s[k] = LowerCase[m]]
     ELSE s[k]]

has_no_output_comment(source) ==
  LET srcLines == Split(Strip(source), <<NL>>)
  IN \E n \in 1..Len(srcLines) :
       LET stripped == Strip(srcLines[n])
       IN WordAt(stripped, 1, "#") /\ Contains(upper(stripped), "NO OUTPUT")

(* display\s*\(\s*HTML\s*\(\s*[frf]?""" at i: the position after the quotes, *)
(* 0 when there is no match                                                  *)
StatusOpenAt(code, i) ==
  LET p1 == SkipSpace(code, i + 7)
      p2 == SkipSpace(code, p1 + 1)
      p3 == SkipSpace(code, p2 + 4)
      p4 == SkipSpace(code, p3 + 1)
      q == "\"\"\""
  IN IF WordAt(code, i, "display") /\ WordAt(code, p1, "(")
        /\ WordAt(code, p2, "HTML") /\ WordAt(code, p3, "(")
     THEN IF (WordAt(code, p4, "f") \/ WordAt(code, p4, "r")) /\ WordAt(code, p4 + 1, q)
          THEN p4 + 4
          ELSE IF WordAt(code, p4, q) THEN p4 + 3 ELSE 0
     ELSE 0

contains_status_display(code) ==
  \E i \in 1..Len(code) :
    /\ StatusOpenAt(code, i) > 0
    /\ \E k \in StatusOpenAt(code, i)..Len(code) :
         /\ WordAt(code, k, "background:")
         /\ WordAt(code, SkipSpace(code, k + 11), "#")

(* ^\s*word\s+ *)
LineWord(code, i, w) ==
  /\ LineStart(code, i)
  /\ WordAt(code, SkipSpace(code, i), w)
  /\ SpaceAt(code, SkipSpace(code, i) + Len(w))

(* ^\s*from\s+.*\s+import *)
FromImport(code, i) ==
  /\ LineWord(code, i, "from")
  /\ LET f == SkipSpace(code, i) + 4
     IN \E a \in (f + 1)..Len(code) : \E b \in a..Len(code) : \E c \in (b + 1)..Len(code) :
          /\ \A j \in f..(a - 1) : IsSpace(code[j])
          /\ \A j \in a..(b - 1) : code[j] # NL
          /\ \A j \in b..(c - 1) : IsSpace(code[j])
          /\ WordAt(code, c, "import")

is_import_or_setup_cell(code) ==
  \/ \E i \in 1..Len(code) : LineWord(code, i, "import") \/ FromImport(code, i)
  \/ \E i \in 1..Len(code) : LineWord(code, i, "!pip") \/ LineWord(code, i, "!conda")
  \/ Contains(code, "%matplotlib")

(* word\s*\( *)
CallOf(code, w) ==
  \E i \in 1..Len(code) : WordAt(code, i, w) /\ WordAt(code, SkipSpace(code, i + Len(w)), "(")

(* display\s*\(\s*\w*Box\s*\( *)
DisplaysBox(code) ==
  \E i \in 1..Len(code) :
    /\ WordAt(code, i, "display")
    /\ WordAt(code, SkipSpace(code, i + 7), "(")
    /\ LET p == SkipSpace(code, SkipSpace(code, i + 7) + 1)
       IN \E k \in p..Len(code) :
            /\ \A j \in p..(k - 1) : IsWordChar(code[j])
            /\ WordAt(code, k, "Box")
            /\ WordAt(code, SkipSpace(code, k + 3), "(")

contains_interactive_plot(code) ==
  \/ CallOf(code, "interact")
  \/ Contains(code, "ipywidgets.")
  \/ \E w \in {"FloatSlider", "IntSlider", "Dropdown", "Button", "Checkbox",
                "SelectionSlider", "Play", "DatePicker"} : Contains(code, w)
  \/ Contains(code, "ThermalWidget")
  \/ Contains(code, "@interact") \/ Contains(code, "interactive")
  \/ \E w \in {"widgets.", "HBox", "VBox", "Tab", "Accordion"} : Contains(code, w)
  \/ Contains(code, "%matplotlib widget")
  \/ CallOf(code, ".observe")
  \/ DisplaysBox(code)

(* the text with every line moved right by four spaces *)
indent_code(code) ==
  Join([n \in 1..Len(Split(code, <<NL>>)) |-> Chars("    ") \o Split(code, <<NL>>)[n]], <<NL>>)

(* \d+ from position i: the position after the digits (i when there is none) *)
RECURSIVE SkipDecimals(_, _)
SkipDecimals(code, i) ==
  IF i <= Len(code) /\ IsDecimal(code[i]) THEN SkipDecimals(code, i + 1) ELSE i

(* int() of the digits code[lo..hi] *)
RECURSIVE IntOf(_, _, _)
IntOf(code, lo, hi) ==
  IF hi < lo THEN 0
  ELSE 10 * IntOf(code, lo, hi - 1) + (CHOOSE v \in 0..9 : Chars("0123456789")[v + 1] = code[hi])

(* w\s*\(\s*(\d+)\s*,\s*(\d+) at i: the two groups as numbers, or <<>> *)
SubplotsAt(code, i, w) ==
  LET p1 == SkipSpace(code, i + Len(w))
      p2 == SkipSpace(code, p1 + 1)
      d1 == SkipDecimals(code, p2)
      p3 == SkipSpace(code, d1)
      p4 == SkipSpace(code, p3 + 1)
      d2 == SkipDecimals(code, p4)
  IN IF WordAt(code, i, w) /\ WordAt(code, p1, "(") /\ d1 > p2
        /\ WordAt(code, p3, ",") /\ d2 > p4
     THEN <<IntOf(code, p2, d1 - 1), IntOf(code, p4, d2 - 1)>>
     ELSE <<>>

(* re.search of the pattern: the groups of the leftmost match, or <<>> *)
SubplotsSearch(code, w) ==
  LET at == {i \in 1..Len(code) : SubplotsAt(code, i, w) # <<>>}
  IN IF at = {} THEN <<>> ELSE SubplotsAt(code, FirstIdx(at), w)

(* the patterns figsize\s*=\s*\[[^\]]+\] and dpi\s*=\s*\d+ at i: the position *)
(* of the last token of the match, 0 when there is none                      *)
FigureMatch(pat, code, i) ==
  LET p1 == SkipSpace(code, i + Len(pat))
      p2 == SkipSpace(code, p1 + 1)
      close == FindTok(code, p2 + 1, "]")
  IN IF ~(WordAt(code, i, pat) /\ WordAt(code, p1, "=")) THEN 0
     ELSE IF pat = "figsize"
          THEN IF WordAt(code, p2, "[") /\ close >= p2 + 2 THEN close ELSE 0
          ELSE IF SkipDecimals(code, p2) > p2 THEN SkipDecimals(code, p2) - 1 ELSE 0

(* re.sub of the pattern; keep: the replacement starts with the match itself *)
RECURSIVE FigureSub(_, _, _, _, _, _)
FigureSub(pat, repl, keep, code, i, out) ==
  IF i > Len(code) THEN out
  ELSE LET j == FigureMatch(pat, code, i)
       IN IF j > 0
          THEN FigureSub(pat, repl, keep, code, j + 1,
                         out \o (IF keep THEN SubSeq(code, i, j) ELSE <<>>) \o Chars(repl))
          ELSE FigureSub(pat, repl, keep, code, i + 1, Append(out, code[i]))

(* the figure size and the resolution chosen for a grid of subplots *)
FigureFor(rows, cols) ==
  LET total_subplots == rows * cols
  IN IF total_subplots <= 2
     THEN <<IF cols > rows THEN "[8.5, 3.5]" ELSE "[5, 7]", "120">>
     ELSE IF total_subplots = 4
     THEN IF rows = 2 /\ cols = 2 THEN <<"[10, 7]", "100">>
          ELSE <<IF cols > rows THEN "[12, 5]" ELSE "[7, 8.5]", "120">>
     ELSE IF total_subplots <= 6
     THEN <<IF cols > rows THEN "[13, 7]" ELSE "[8.5, 10]", "100">>
     ELSE <<"[14, 8.5]", "80">>

detect_and_adjust_matplotlib_code(code) ==
  IF ~(Contains(code, "plt.subplots") \/ Contains(code, "fig, ax = plt.subplots")
       \/ Contains(code, "pyplot.subplots"))
  THEN code
  ELSE
    LET first == SubplotsSearch(code, "plt.subplots")
        subplot_match == IF first # <<>> THEN first ELSE SubplotsSearch(code, "subplots")
    IN IF subplot_match # <<>>
       THEN LET fig == FigureFor(subplot_match[1], subplot_match[2])
                sized == FigureSub("figsize", "figsize=" \o fig[1], FALSE, code, 1, <<>>)
            IN IF Contains(sized, "dpi=")
               THEN FigureSub("dpi", "dpi=" \o fig[2], FALSE, sized, 1, <<>>)
               ELSE FigureSub("figsize", ", dpi=" \o fig[2], TRUE, sized, 1, <<>>)
       ELSE IF Contains(code, "figsize")
            THEN LET sized == FigureSub("figsize", "figsize=[8.5, 5]", FALSE, code, 1, <<>>)
                 IN IF Contains(sized, "dpi=")
                    THEN FigureSub("dpi", "dpi=120", FALSE, sized, 1, <<>>)
                    ELSE sized
            ELSE code

(* the conversion of one text, run from its first statement to its last *)
RECURSIVE RunToDone(_)
RunToDone(s) == IF s.pc = "done" THEN s ELSE RunToDone(Step(s))

convert_markdown_to_html(t) == RunToDone(InitFrame(t)).markdown_text

(* str.splitlines() *)
splitlines(s) ==
  IF s = <<>> THEN <<>>
  ELSE IF s[Len(s)] = NL THEN Split(SubSeq(s, 1, Len(s) - 1), <<NL>>)
  ELSE Split(s, <<NL>>)

(* str.strip("# ") *)
StripTitle(s) ==
  LET keep == {j \in 1..Len(s) : s[j] \notin {"#", SP}}
  IN IF keep = {} THEN <<>>
     ELSE SubSeq(s, FirstIdx(keep), CHOOSE j \in keep : \A m \in keep : m <= j)

(* ^##\s+.+$ under re.MULTILINE starts a match at i *)
SecondaryHeadingAt(t, i) ==
  /\ LineStart(t, i)
  /\ WordAt(t, i, "##")
  /\ \E a \in (i + 3)..Len(t) : t[a] # NL /\ \A j \in (i + 2)..(a - 1) : IsSpace(t[j])

(* the first line of each cell the converter writes *)
StylingWrapper == "# This cell configures the notebook's appearance and mathematical rendering"
TitleWrapper == "# Display the main title with professional styling"
StyledIntroWrapper == "# Display introduction content with distinctive styling"
RestWrapper == "# Display remaining content from title cell"
IntroWrapper == "# Display introduction content"
SectionWrapper == "# Convert markdown content to styled HTML"
NoOutputWrapper == "# Execute code without displaying output (NO OUTPUT comment detected)"
StatusWrapper == "# Execute cell with status display output"
SetupWrapper == "# Execute setup/import code (hidden from presentation)"
WidgetWrapper == "# Display interactive widget with descriptive header"
CapturedWrapper == "# Execute code and display output in styled container"
FooterWrapper == "# Add footer with attribution"

(* a new code cell made of a template, named by its first line, and of the *)
(* texts the template is filled with, tagged to hide its input             *)
HiddenCell(wrapper, header, content) ==
  [wrapper |-> wrapper, header |-> header, content |-> content, tags |-> <<"hide-input">>]

(* the header put above an interactive cell *)
header_html(source) ==
  IF Contains(source, "ThermalWidget") THEN "Interactive Thermal Homogenization Explorer"
  ELSE IF \E w \in {"FloatSlider", "IntSlider", "interact"} : Contains(source, w)
  THEN "Interactive Plot"
  ELSE "Interactive Content"

(* variant: the import test comes before the NO OUTPUT test *)
CodeCellSetupFirst(source) ==
  IF is_import_or_setup_cell(source) THEN HiddenCell(SetupWrapper, "", source)
  ELSE IF has_no_output_comment(source)
  THEN HiddenCell(NoOutputWrapper, "", indent_code(source))
  ELSE IF contains_status_display(source) THEN HiddenCell(StatusWrapper, "", source)
  ELSE IF contains_interactive_plot(source)
  THEN HiddenCell(WidgetWrapper, header_html(source), source)
  ELSE HiddenCell(CapturedWrapper, "", indent_code(detect_and_adjust_matplotlib_code(source)))

(* the cell written for a code cell: the chain of tests of the cell loop *)
CodeCell(source) ==
  IF has_no_output_comment(source)
  THEN HiddenCell(NoOutputWrapper, "", indent_code(source))
  ELSE IF contains_status_display(source) THEN HiddenCell(StatusWrapper, "", source)
  ELSE IF is_import_or_setup_cell(source) THEN HiddenCell(SetupWrapper, "", source)
  ELSE IF contains_interactive_plot(source)
  THEN HiddenCell(WidgetWrapper, header_html(source), source)
  ELSE HiddenCell(CapturedWrapper, "", indent_code(detect_and_adjust_matplotlib_code(source)))

(* the cells written for the markdown cell that holds the title *)
TitleCellRest(source) ==
  LET srcLines == splitlines(source)
      remaining_content == Join(Tail(srcLines), <<NL>>)
      at == {i \in 1..Len(remaining_content) : SecondaryHeadingAt(remaining_content, i)}
      intro_content == Strip(SubSeq(remaining_content, 1, FirstIdx(at) - 1))
      rest_content == SubSeq(remaining_content, FirstIdx(at), Len(remaining_content))
  IN IF Len(srcLines) <= 1 THEN <<>>
     ELSE IF at # {}
     THEN (IF intro_content # <<>>
           THEN <<HiddenCell(StyledIntroWrapper, "", convert_markdown_to_html(intro_content))>>
           ELSE <<>>)
          \o (IF Strip(rest_content) # <<>>
              THEN <<HiddenCell(RestWrapper, "", convert_markdown_to_html(rest_content))>>
              ELSE <<>>)
     ELSE IF Strip(remaining_content) # <<>>
     THEN <<HiddenCell(IntroWrapper, "", convert_markdown_to_html(remaining_content))>>
     ELSE <<>>

(* the first markdown cell that starts with "# ", 0 when there is none *)
TitleCellIndex(cells) ==
  FirstIdx({n \in 1..Len(cells) :
              cells[n].cell_type = "markdown" /\ WordAt(cells[n].source, 1, "# ")})

(* cells of the notebooks read: code cells that meet none, one or several *)
(* of the tests, markdown cells with and without a title, and a raw cell  *)
CodeSources ==
  {"x = 1",
   "# no output\nimport os",
   "x = 1  # NO OUTPUT",
   "import os",
   "from a import b\ndisplay(HTML(\"\"\"<p style=\"background: #eee\">\"\"\"))",
   "display(HTML(\"\"\"<b style=\"background: #fff\">\"\"\"))\ninteract(f)",
   "interact(f, a=FloatSlider())",
   "import ipywidgets\nThermalWidget()",
   "# NO OUTPUT\nw = ThermalWidget()",
   "b = Dropdown()",
   "fig, ax = plt.subplots(1, 2, figsize=[4, 4])"}

MarkdownSources == {"a", "# a", "# a\na", "# a\na\n## a\na", "# a\n## a"}

NotebookCells ==
  {[cell_type |-> "code", source |-> Chars(s)] : s \in CodeSources}
  \cup {[cell_type |-> "markdown", source |-> Chars(s)] : s \in MarkdownSources}
  \cup {[cell_type |-> "raw", source |-> Chars("a")]}

InitNotebook ==
  /\ \E n \in 0..MaxCells : nb \in [1..n -> NotebookCells]
  /\ new_nb = <<>>
  /\ title = Chars("Jupyter Notebook")
  /\ title_cell_index = 0
  /\ cell_no = 0
  /\ nb_pc = "styling"
  /\ calls = <<>>
  /\ pc = "done"
  /\ input = <<>>
  /\ markdown_text = <<>>
  /\ references_section = <<>>
  /\ math_blocks = <<>>
  /\ has_math = FALSE
  /\ text = <<>>
  /\ lines = <<>>
  /\ line_no = 1
  /\ in_list = FALSE
  /\ in_blockquote = FALSE
  /\ result = <<>>
  /\ block_i = 0

StylingCell ==
  /\ nb_pc = "styling"
  /\ new_nb' = Append(new_nb, HiddenCell(StylingWrapper, "", <<"DEFAULT_CSS">>))
  /\ nb_pc' = "title"
  /\ UNCHANGED <<frameVars, calls, nb, title, title_cell_index, cell_no>>

TitleCell ==
  /\ nb_pc = "title"
  /\ title_cell_index' = TitleCellIndex(nb)
  /\ title' = IF TitleCellIndex(nb) = 0 THEN title
              ELSE StripTitle(splitlines(nb[TitleCellIndex(nb)].source)[1])
  /\ new_nb' = Append(new_nb, HiddenCell(TitleWrapper, "", title'))
  /\ cell_no' = 1
  /\ nb_pc' = "cells"
  /\ UNCHANGED <<frameVars, calls, nb>>

MarkdownCell ==
  /\ nb_pc = "cells"
  /\ cell_no <= Len(nb)
  /\ nb[cell_no].cell_type = "markdown"
  /\ new_nb' = new_nb \o
       (IF cell_no = title_cell_index THEN TitleCellRest(nb[cell_no].source)
        ELSE <<HiddenCell(SectionWrapper, "", convert_markdown_to_html(nb[cell_no].source))>>)
  /\ cell_no' = cell_no + 1
  /\ UNCHANGED <<frameVars, calls, nb, title, title_cell_index, nb_pc>>

CodeCellStep ==
  /\ nb_pc = "cells"
  /\ cell_no <= Len(nb)
  /\ nb[cell_no].cell_type = "code"
  /\ new_nb' = Append(new_nb, CodeCell(nb[cell_no].source))
  /\ cell_no' = cell_no + 1
  /\ UNCHANGED <<frameVars, calls, nb, title, title_cell_index, nb_pc>>

OtherCell ==
  /\ nb_pc = "cells"
  /\ cell_no <= Len(nb)
  /\ nb[cell_no].cell_type \notin {"markdown", "code"}
  /\ cell_no' = cell_no + 1
  /\ UNCHANGED <<frameVars, calls, nb, new_nb, title, title_cell_index, nb_pc>>

FooterCell ==
  /\ nb_pc = "cells"
  /\ cell_no > Len(nb)
  /\ new_nb' = Append(new_nb, HiddenCell(FooterWrapper, "", <<>>))
  /\ nb_pc' = "written"
  /\ UNCHANGED <<frameVars, calls, nb, title, title_cell_index, cell_no>>

NextNotebook ==
  \/ StylingCell
  \/ TitleCell
  \/ MarkdownCell
  \/ CodeCellStep
  \/ OtherCell
  \/ FooterCell

SpecNotebook == InitNotebook /\ [][NextNotebook]_vars

(* ------------------------------- claims ------------------------------- *)
Placeholder(i) == placeholder_format(i - 1, math_blocks[i][1])

PlaceholderTokens(n) == {placeholder_format(i, k) : i \in 0..n, k \in Kinds}

MarkupTokens == TagTokens \cup {SPAN, NOTMATH, CITNUM, BRACKETC, AHREF, AMID, "&#40;", "&#41;"}

PastExtraction ==
  {"paren", "render", "scan", "format", "paragraphs", "citation", "references",
   "restore", "done"}

(* C1: when the four extraction passes are over (the parenthesis guard is *)
(* next), the placeholder of every extracted block occurs exactly once in *)
(* the working text.                                                      *)
C1_PlaceholdersOnce ==
  pc = "paren" =>
    \A i \in 1..Len(math_blocks) : Count(markdown_text, Placeholder(i)) = 1

(* C2: the returned HTML contains no placeholder of an extracted block. *)
C2_NoPlaceholderLeft ==
  pc = "done" =>
    \A i \in 1..Len(math_blocks) : Count(markdown_text, Placeholder(i)) = 0

(* C3: no step after the extraction passes changes a stored block, and no *)
(* stored content ever holds markup made by a guard or by the renderer *)
(* (a notmath span, an emphasis tag ...).                              *)
C3_MathUntouched ==
  [][/\ pc \in PastExtraction => math_blocks' = math_blocks
     /\ \A i \in 1..Len(math_blocks') :
          \A j \in 1..Len(math_blocks'[i][2]) : math_blocks'[i][2][j] \notin MarkupTokens]_vars

C3_Witness ==
  /\ pc = "done"
  /\ Count(markdown_text, NOTMATH) > 0
  /\ \E i \in 1..Len(math_blocks) :
       /\ Count(math_blocks[i][2], "(") > 0
       /\ Occurrences(markdown_text, Rewrap(math_blocks[i])) = 1

(* C4: every extracted block is present in the returned HTML, inside its *)
(* delimiters and with its backslashes doubled.                          *)
C4_AllMathRestored ==
  pc = "done" =>
    \A i \in 1..Len(math_blocks) :
      Occurrences(markdown_text, Rewrap(math_blocks[i])) >= 1

(* C5: a restitution step puts, for the placeholder of its block, "$$" + *)
(* content + "$$" (kinds align, env, display) or "$" + content + "$"     *)
(* (kind inline), content being the stored content with each backslash   *)
(* written twice and every other token as it is.                         *)
RECURSIVE BackslashesDoubled(_)
BackslashesDoubled(c) ==
  IF c = <<>> THEN <<>>
  ELSE (IF Head(c) = BS THEN <<BS, BS>> ELSE <<Head(c)>>) \o BackslashesDoubled(Tail(c))

DelimiterOf(kind) == IF kind = "inline" THEN <<DOLLAR>> ELSE <<DOLLAR, DOLLAR>>

C5_RewrapByKind ==
  [][(pc = "restore" /\ block_i' = block_i + 1) =>
       LET b == math_blocks[block_i + 1]
       IN markdown_text' =
            ReplaceAll(markdown_text, placeholder_format(block_i, b[1]),
                       DelimiterOf(b[1]) \o BackslashesDoubled(b[2]) \o DelimiterOf(b[1]))]_vars

C5_Witness ==
  /\ pc = "done"
  /\ \E i \in 1..Len(math_blocks) :
       /\ math_blocks[i][1] = "inline"
       /\ Count(math_blocks[i][2], BS) > 0
       /\ Occurrences(markdown_text,
                      <<DOLLAR>> \o BackslashesDoubled(math_blocks[i][2]) \o <<DOLLAR>>) = 1
       /\ Occurrences(markdown_text, <<DOLLAR, DOLLAR>>) = 0

(* C6: for an input that is one inline expression $e$, the returned HTML *)
(* holds "$" + e with doubled backslashes + "$" exactly once and no      *)
(* other "$".                                                            *)
SingleInline(t) ==
  /\ Len(t) >= 3
  /\ t[1] = DOLLAR
  /\ t[Len(t)] = DOLLAR
  /\ \A j \in 2..(Len(t) - 1) : t[j] \notin {DOLLAR, NL}

C6_InlineRoundTrip ==
  (pc = "done" /\ SingleInline(input)) =>
    /\ Occurrences(markdown_text,
                   <<DOLLAR>> \o BackslashesDoubled(SubSeq(input, 2, Len(input) - 1))
                   \o <<DOLLAR>>) = 1
    /\ Count(markdown_text, DOLLAR) = 2

(* C7: the returned HTML ends with the typesetting script exactly when a *)
(* block was extracted, and for an input without any math delimiter it   *)
(* holds neither the script nor a placeholder.                           *)
NoMathMarkers(t) == \A j \in 1..Len(t) : t[j] # DOLLAR /\ ~IsBegin(t[j])

C7_ScriptIffMath ==
  pc = "done" =>
    /\ Count(markdown_text, SCRIPT) = (IF Len(math_blocks) > 0 THEN 1 ELSE 0)
    /\ Len(math_blocks) > 0 => markdown_text[Len(markdown_text)] = SCRIPT
    /\ NoMathMarkers(input) =>
         /\ Count(markdown_text, SCRIPT) = 0
         /\ \A j \in 1..Len(markdown_text) :
              markdown_text[j] \notin PlaceholderTokens(Len(input))

C7_Witness ==
  /\ pc = "done"
  /\ Len(math_blocks) > 0
  /\ markdown_text[Len(markdown_text)] = SCRIPT

(* C8: in_list and in_blockquote are never both true. *)
C8_FlagsExclusive == ~(in_list /\ in_blockquote)

(* C9: when the scan of the lines is over, result holds as many </ul> as *)
(* <ul> and as many </blockquote> as <blockquote>, and a wrapper open    *)
(* after the last line has been closed.                                  *)
LineCount(res, tag) == Cardinality({j \in 1..Len(res) : res[j] = <<tag>>})

C9_Balanced ==
  pc = "format" =>
    /\ LineCount(result, "<ul>") = LineCount(result, "</ul>")
    /\ LineCount(result, "<blockquote>") = LineCount(result, "</blockquote>")
    /\ in_blockquote => result[Len(result)] = <<"</blockquote>">>
    /\ in_list => \E j \in (Len(result) - 1)..Len(result) : j >= 1 /\ result[j] = <<"</ul>">>

(* C9 as stated: the above, and both flags are false when the scan is over *)
C9_ClosedAndFlagsFalse ==
  pc = "format" =>
    /\ LineCount(result, "<ul>") = LineCount(result, "</ul>")
    /\ LineCount(result, "<blockquote>") = LineCount(result, "</blockquote>")
    /\ ~in_list
    /\ ~in_blockquote

C9_Witness ==
  /\ pc = "format"
  /\ in_list
  /\ result[Len(result)] = <<"</ul>">>
  /\ LineCount(result, "<ul>") = 1

(* C10: once the references container is appended (and before any math is *)
(* restored), no notmath span lies in the container, no citation-number  *)
(* span lies before it, every [digits] of the references section has its *)
(* citation-number span and every [digits] before the container is       *)
(* inside a notmath span.                                                *)
CitationStarts(t) == {i \in 1..Len(t) : CitationMatch(t, i) # 0}

C10_ReferencesIsolated ==
  (pc = "restore" /\ block_i = 0) =>
    LET d == FindTok(markdown_text, 1, REFDIV)
        main == IF d = 0 THEN markdown_text ELSE SubSeq(markdown_text, 1, d - 1)
        refs == IF d = 0 THEN <<>> ELSE SubSeq(markdown_text, d, Len(markdown_text))
    IN /\ (d # 0) <=> (references_section # <<>>)
       /\ Count(refs, NOTMATH) = 0
       /\ Count(main, CITNUM) = 0
       /\ Count(refs, CITNUM) = Cardinality(CitationStarts(references_section))
       /\ \A i \in CitationStarts(main) :
            i > 2 /\ main[i - 2] = SPAN /\ main[i - 1] = NOTMATH

C10_Witness ==
  /\ pc = "restore"
  /\ block_i = 0
  /\ LET d == FindTok(markdown_text, 1, REFDIV)
     IN /\ d > 1
        /\ Occurrences(SubSeq(markdown_text, 1, d - 1), <<SPAN, NOTMATH, "[">>) > 0
        /\ Count(SubSeq(markdown_text, d, Len(markdown_text)), CITNUM) > 0

(* C11: the split is a partition at the first References heading: the    *)
(* references section is the input from the first heading line to the   *)
(* end (a later heading stays inside it), the main body is the input    *)
(* before that line and holds no heading line, main body + references   *)
(* section = input; without a heading line the references section is    *)
(* empty, the main body is the whole input and the returned HTML holds   *)
(* no references container (with one, it holds exactly one).             *)
HeadingLines(t) == {i \in 1..Len(t) : RefHeadingAt(t, i)}

C11_SplitIsPartition ==
  /\ pc # "split" =>
       /\ HeadingLines(input) = {} => references_section = <<>>
       /\ \A h \in HeadingLines(input) :
            (\A g \in HeadingLines(input) : h <= g) =>
              references_section = SubSeq(input, h, Len(input))
  /\ pc = "align" =>
       /\ markdown_text \o references_section = input
       /\ HeadingLines(markdown_text) = {}
  /\ pc = "done" =>
       Count(markdown_text, REFDIV) = (IF HeadingLines(input) = {} THEN 0 ELSE 1)

C11_Witness ==
  /\ pc = "done"
  /\ Cardinality(HeadingLines(input)) >= 2
  /\ Cardinality(HeadingLines(references_section)) >= 2
  /\ Count(markdown_text, REFDIV) = 1

(* C12: the returned HTML is the rendered main body, then the one        *)
(* references container (exactly when a references section exists), then *)
(* the typesetting script (exactly when math was found): when the        *)
(* container has been appended the text is the renderer's output with    *)
(* its citations guarded, followed by the container; in the returned     *)
(* HTML everything from the start of the container on is the processed   *)
(* references section and then the script, and nothing follows the       *)
(* script.                                                               *)
C12_OutputOrder ==
  /\ (pc = "restore" /\ block_i = 0) =>
       markdown_text = Sub("citation", text) \o
                       (IF references_section # <<>>
                        THEN ProcessReferences(references_section) ELSE <<>>)
  /\ pc = "done" =>
       LET n == Len(markdown_text)
           d == FindTok(markdown_text, 1, REFDIV)
           tail == (IF references_section # <<>>
                    THEN ProcessReferences(references_section) ELSE <<>>)
                   \o (IF has_math THEN <<SCRIPT>> ELSE <<>>)
       IN /\ Count(markdown_text, REFDIV) = (IF references_section # <<>> THEN 1 ELSE 0)
          /\ Count(markdown_text, ENDDIV) = Count(markdown_text, REFDIV)
          /\ Count(markdown_text, SCRIPT) = (IF has_math THEN 1 ELSE 0)
          /\ has_math => markdown_text[n] = SCRIPT
          /\ d # 0 => SubSeq(markdown_text, d, n) = tail
          /\ d = 0 => (has_math <=> (n > 0 /\ markdown_text[n] = SCRIPT))

C12_Witness ==
  /\ pc = "done"
  /\ LET n == Len(markdown_text)
         d == FindTok(markdown_text, 1, REFDIV)
     IN /\ d > 1
        /\ markdown_text[n] = SCRIPT
        /\ markdown_text[n - 1] = ENDDIV
        /\ Count(SubSeq(markdown_text, 1, d - 1), DOLLAR) > 0

(* C13: the parenthesis guard runs after the extraction passes and       *)
(* before the renderer, the citation guard after the renderer: the text  *)
(* the renderer receives has every "(" that a ")" follows inside a       *)
(* notmath span and no [digits] wrapped yet; when the renderer has       *)
(* returned and the citation guard has run (the references are next),    *)
(* every [digits] is inside a notmath span.                              *)
(* the text with its notmath spans "(" ... ")" taken out *)
RECURSIVE OutsideParenSpans(_, _)
OutsideParenSpans(t, i) ==
  IF i > Len(t) THEN <<>>
  ELSE IF i + 2 <= Len(t) /\ t[i] = SPAN /\ t[i + 1] = NOTMATH /\ t[i + 2] = "("
       THEN LET e == FindPair(t, i + 3, ")", ENDSPAN)
            IN IF e = 0 THEN SubSeq(t, i, Len(t)) ELSE OutsideParenSpans(t, e + 2)
       ELSE <<t[i]>> \o OutsideParenSpans(t, i + 1)

ParensWrapped(t) ==
  LET u == OutsideParenSpans(t, 1)
  IN \A i \in 1..Len(u) : ParenMatch(u, i) = 0

CitationsWrapped(t) ==
  \A i \in CitationStarts(t) : i > 2 /\ t[i - 2] = SPAN /\ t[i - 1] = NOTMATH

Frame ==
  [pc |-> pc, input |-> input, markdown_text |-> markdown_text,
   references_section |-> references_section, math_blocks |-> math_blocks,
   has_math |-> has_math, text |-> text, lines |-> lines, line_no |-> line_no,
   in_list |-> in_list, in_blockquote |-> in_blockquote, result |-> result,
   block_i |-> block_i]

FrameStepAgrees == [][Frame' = Step(Frame)]_vars

(* the frame an invocation ends with when it runs alone from frame s *)
RECURSIVE RunAlone(_)
RunAlone(s) == IF s.pc = "done" THEN s ELSE RunAlone(Step(s))

(* frame f is one of the frames of the invocation that runs alone from s *)
RECURSIVE OnRunAlone(_, _)
OnRunAlone(s, f) == s = f \/ (s.pc # "done" /\ OnRunAlone(Step(s), f))

C15_IncidentalTextKept ==
  pc = "done" =>
    Count(markdown_text, placeholder_format(0, "inline")) =
      Count(input, placeholder_format(0, "inline"))

(* C16: bold is converted before italic: the returned HTML of            *)
(* "**bold** and *italic* (keep (this) plain)" holds <strong>bold</strong> *)
(* and <em>italic</em> once each and no emphasis tag from the first "("   *)
(* on; and no text, after the inline formatting or when returned, holds   *)
(* an <em> element that opens right after "(" and closes right before    *)
(* ")".                                                                   *)
EmphasisTags == {"<em>", "</em>", "<strong>", "</strong>"}

NoEmFillingParens(t) ==
  \A i \in 1..(Len(t) - 1) :
    (t[i] = "(" /\ t[i + 1] = "<em>") =>
      LET j == FindTok(t, i + 2, "</em>")
      IN ~(j # 0 /\ j < Len(t) /\ t[j + 1] = ")")

C16_BoldThenItalic ==
  /\ pc = "paragraphs" => NoEmFillingParens(text)
  /\ pc = "done" =>
       /\ NoEmFillingParens(markdown_text)
       /\ input = EmphasisExample =>
            /\ Occurrences(markdown_text, <<"<strong>", LETTER, "</strong>">>) = 1
            /\ Occurrences(markdown_text, <<"<em>", LETTER, "</em>">>) = 1
            /\ Count(markdown_text, "*") = 0
            /\ \A j \in FindTok(markdown_text, 1, "(")..Len(markdown_text) :
                 markdown_text[j] \notin EmphasisTags

C16_Witness ==
  /\ pc = "done"
  /\ input = EmphasisExample
  /\ Occurrences(markdown_text, <<"<strong>", LETTER, "</strong>", SP, LETTER, SP,
                                  "<em>", LETTER, "</em>">>) = 1
  /\ Occurrences(markdown_text, <<"(", LETTER, SP, "(", LETTER, ")">>) = 1

(* C17: when the input holds \begin or \end words and no \begin{name}   *)
(* has an \end{name} of the same name after it, no environment block is *)
(* ever stored; and when moreover                                        *)
(* no stored block holds a backslash or an environment word (the         *)
(* malformed piece is not written between dollars), the returned HTML    *)
(* holds the backslashes and the \begin, \end words of the input, all of *)
(* them, unchanged and in the same order, while the math of the rest of  *)
(* the input still gets the typesetting script.                          *)
IsEnvTok(tok) == tok = BS \/ \E n \in EnvNames : tok \in {BeginTok(n), EndTok(n)}

Malformed(t) ==
  \A n \in EnvNames : \A i, j \in 1..(Len(t) - 1) :
    (t[i] = BS /\ t[i + 1] = BeginTok(n) /\ t[j] = BS /\ t[j + 1] = EndTok(n)) => j < i

ClosedFirst(old, new, tag) ==
  \E k \in (Len(old) + 1)..Len(new) :
    /\ new[k] = <<tag>>
    /\ \A m \in (Len(old) + 1)..(k - 1) : new[m] \in {<<"</ul>">>, <<"</blockquote>">>}

C18_WrapperClosedFirst ==
  [][(pc = "scan" /\ line_no' = line_no + 1) =>
       LET s == Strip(lines[line_no])
           list_item == Len(s) >= 2 /\ s[1] = "-" /\ s[2] = SP
           quote == s # <<>> /\ s[1] = ">"
       IN /\ (in_list /\ ~list_item) => ClosedFirst(result, result', "</ul>")
          /\ (in_blockquote /\ ~quote) => ClosedFirst(result, result', "</blockquote>")]_vars

(* C19: when the main body holds a markdown link [text](url), the         *)
(* returned HTML holds the anchor <a href="url">text</a>.                *)
C19_LinkBecomesAnchor ==
  (pc = "done" /\ Occurrences(input, LinkExample) > 0 /\ references_section = <<>>) =>
    Occurrences(markdown_text, <<AHREF, LETTER, AMID, LETTER, "</a>">>) > 0

(* C20: in the references container every [digits] of the references     *)
(* section is rendered by rule 2 alone, as one citation-number span      *)
(* around one bracket-content span, and rule 3 wraps only the bracketed  *)
(* texts of the section that do not start with a digit: the container    *)
(* holds one bracket-content span per bracketed text of either kind, and *)
(* the markup of rule 2 stands as rule 2 wrote it.                       *)
BracketStarts(t) == {i \in 1..Len(t) : BracketMatch(t, i) # 0}

C20_BracketRulesDisjoint ==
  (pc = "restore" /\ block_i = 0 /\ references_section # <<>>) =>
    LET d == FindTok(markdown_text, 1, REFDIV)
        refs == SubSeq(markdown_text, d, Len(markdown_text))
        cited == Cardinality(CitationStarts(references_section))
    IN /\ Occurrences(refs, <<SPAN, CITNUM, SPAN, BRACKETC, "[", "<em>", "<strong>", DIGIT,
                              "</strong>", "</em>", "]", ENDSPAN, ENDSPAN>>) = cited
       /\ Count(refs, BRACKETC) = cited + Cardinality(BracketStarts(references_section))

(* C21: the align pass comes first and every pass works on what the one  *)
(* before left: when the four passes are over, the first blocks are the  *)
(* align environments of the main body, one block of kind align each,    *)
(* in order, with every "$" of their body inside; no other block is of   *)
(* kind align; and every "$", letter and backslash of the main body is   *)
(* in exactly one place, the working text, one stored content or the     *)
(* delimiters a display or inline block was cut at, so that no block is  *)
(* made from characters of the body of another.                          *)
RECURSIVE AlignRuns(_, _)
AlignRuns(t, i) ==
  IF i > Len(t) THEN <<>>
  ELSE LET j == AlignMatch(t, i)
       IN IF j = 0 THEN AlignRuns(t, i + 1)
          ELSE <<SubSeq(t, i, j)>> \o AlignRuns(t, j + 1)

MainBody == SubSeq(input, 1, Len(input) - Len(references_section))

StoredTokens == Flatten([b \in 1..Len(math_blocks) |-> math_blocks[b][2]])

BlocksOfKind(kind) == Cardinality({b \in 1..Len(math_blocks) : math_blocks[b][1] = kind})

C21_AlignFirst ==
  pc = "paren" =>
    LET runs == AlignRuns(MainBody, 1)
    IN /\ Len(runs) <= Len(math_blocks)
       /\ \A k \in 1..Len(math_blocks) :
            IF k <= Len(runs)
            THEN /\ math_blocks[k][1] = "align"
                 /\ Len(math_blocks[k][2]) = Len(runs[k])
                 /\ Count(math_blocks[k][2], DOLLAR) = Count(runs[k], DOLLAR)
            ELSE math_blocks[k][1] # "align"
       /\ Count(MainBody, DOLLAR) =
            Count(markdown_text, DOLLAR) + Count(StoredTokens, DOLLAR)
            + 4 * BlocksOfKind("display") + 2 * BlocksOfKind("inline")
       /\ \A x \in {LETTER, BS} :
            Count(MainBody, x) = Count(markdown_text, x) + Count(StoredTokens, x)

C21_Witness ==
  /\ pc = "paren"
  /\ Len(math_blocks) = 1
  /\ math_blocks[1][1] = "align"
  /\ Occurrences(math_blocks[1][2], <<DOLLAR, DOLLAR, DOLLAR, DOLLAR>>) = 1
  /\ markdown_text = <<placeholder_format(0, "align")>>

(* C22: the four passes share one counter: an extraction pass keeps the  *)
(* blocks stored before it where they are and gives the k-th block of    *)
(* the call the index k - 1 (its placeholder, with that index and the    *)
(* kind of the pass, is in the text the pass returns, once, the new      *)
(* placeholders in the order of their indices); and when the passes are  *)
(* over the placeholders of two different blocks are different strings,  *)
(* none of them a substring of the other.                                *)
IsSubstring(a, b) ==
  \E k \in 1..(Len(b) - Len(a) + 1) : SubSeq(b, k, k + Len(a) - 1) = a

PlaceholdersApart ==
  pc = "paren" =>
    \A a, b \in 1..Len(math_blocks) :
      a # b => /\ Placeholder(a) # Placeholder(b)
               /\ ~IsSubstring(Placeholder(a), Placeholder(b))

IndicesCountUp ==
  pc \in Kinds =>
    /\ Len(math_blocks') >= Len(math_blocks)
    /\ SubSeq(math_blocks', 1, Len(math_blocks)) = math_blocks
    /\ \A k \in (Len(math_blocks) + 1)..Len(math_blocks') :
         /\ math_blocks'[k][1] = pc
         /\ Count(markdown_text', placeholder_format(k - 1, pc)) = 1
         /\ k < Len(math_blocks') =>
              FindTok(markdown_text', 1, placeholder_format(k - 1, pc))
                < FindTok(markdown_text', 1, placeholder_format(k, pc))

C22_SharedCounter == []PlaceholdersApart /\ [][IndicesCountUp]_vars

C22_Witness ==
  /\ pc = "paren"
  /\ Len(math_blocks) = ManyBlocks
  /\ Count(markdown_text, placeholder_format(1, "inline")) = 1
  /\ Count(markdown_text, placeholder_format(10, "inline")) = 1

(* C23: the align pass stores, for every match in the text it receives,  *)
(* one block of kind align whose content is the matched text with every  *)
(* \begin{align} and \end{align} starred and nothing else changed; the   *)
(* pass of the other environments stores, for every match in the text   *)
(* it receives, one block of kind env whose content is the matched text. *)
RECURSIVE EnvRuns(_, _)
EnvRuns(t, i) ==
  IF i > Len(t) THEN <<>>
  ELSE LET j == EnvMatch(t, i)
       IN IF j = 0 THEN EnvRuns(t, i + 1)
          ELSE <<SubSeq(t, i, j)>> \o EnvRuns(t, j + 1)

Unstarred(content) ==
  [k \in 1..Len(content) |->
     IF content[k] = BeginTok("align*") THEN BeginTok("align")
     ELSE IF content[k] = EndTok("align*") THEN EndTok("align")
     ELSE content[k]]

C23_AlignStarredEnvVerbatim ==
  [][/\ pc = "align" =>
          LET runs == AlignRuns(markdown_text, 1)
          IN /\ Len(math_blocks') = Len(math_blocks) + Len(runs)
             /\ \A k \in 1..Len(runs) :
                  LET block == math_blocks'[Len(math_blocks) + k]
                  IN /\ block[1] = "align"
                     /\ Unstarred(block[2]) = runs[k]
                     /\ Count(block[2], BeginTok("align")) = 0
                     /\ Count(block[2], EndTok("align")) = 0
     /\ pc = "env" =>
          LET runs == EnvRuns(markdown_text, 1)
          IN /\ Len(math_blocks') = Len(math_blocks) + Len(runs)
             /\ \A k \in 1..Len(runs) :
                  math_blocks'[Len(math_blocks) + k] = <<"env", runs[k]>>]_vars

C23_Witness ==
  /\ pc = "display"
  /\ Len(math_blocks) = 2
  /\ math_blocks[1] = <<"align", <<BS, BeginTok("align*"), BS, EndTok("align*")>>>>
  /\ math_blocks[2] = <<"env", <<BS, BeginTok("c"), BS, EndTok("c")>>>>

(* C24: the input is split only at the start of a line made of "#"       *)
(* characters, whitespace of that line, the word References and an      *)
(* optional colon: when a references section was split off, it starts   *)
(* with such a line.                                                    *)
HeadingLineOnly(t, i) ==
  /\ (i = 1 \/ t[i - 1] = NL)
  /\ t[i] = "#"
  /\ LET h == FirstIdx({j \in i..Len(t) : t[j] # "#"})
     IN /\ h # 0
        /\ t[h] = SP
        /\ LET w == FirstIdx({j \in h..Len(t) : t[j] # SP})
               e == IF w # 0 /\ w < Len(t) /\ t[w + 1] = ":" THEN w + 1 ELSE w
           IN /\ w # 0
              /\ t[w] = REFWORD
              /\ (e = Len(t) \/ t[e + 1] = NL)

C24_SplitOnlyAtHeadingLine ==
  (pc # "split" /\ references_section # <<>>) =>
    HeadingLineOnly(input, Len(input) - Len(references_section) + 1)

(* C25: in the lines the scanner has appended, <ul> ... </ul> and         *)
(* <blockquote> ... </blockquote> are well nested: every closing tag     *)
(* closes the wrapper opened last among those still open, and when the   *)
(* scan is over no wrapper is left open.                                 *)
RECURSIVE OpenAfter(_, _, _)
OpenAfter(res, i, open) ==
  IF i > Len(res) THEN open
  ELSE IF res[i] \in {<<"<ul>">>, <<"<blockquote>">>}
       THEN OpenAfter(res, i + 1, Append(open, res[i]))
  ELSE IF res[i] = <<"</ul>">>
       THEN IF open # <<>> /\ open[Len(open)] = <<"<ul>">>
            THEN OpenAfter(res, i + 1, SubSeq(open, 1, Len(open) - 1))
            ELSE <<<<"overlap">>>>
  ELSE IF res[i] = <<"</blockquote>">>
       THEN IF open # <<>> /\ open[Len(open)] = <<"<blockquote>">>
            THEN OpenAfter(res, i + 1, SubSeq(open, 1, Len(open) - 1))
            ELSE <<<<"overlap">>>>
  ELSE OpenAfter(res, i + 1, open)

C25_WellNested ==
  /\ pc = "scan" => OpenAfter(result, 1, <<>>) # <<<<"overlap">>>>
  /\ pc = "format" => OpenAfter(result, 1, <<>>) = <<>>

(* C26: every code cell of the notebook gives exactly one written cell, in *)
(* the order of the code cells, tagged hide-input; its wrapper is the one  *)
(* of the first test the source meets in the order NO OUTPUT comment,      *)
(* status display, import or setup, interactive widget, and the captured-  *)
(* output wrapper when it meets none; it carries the source of its cell.   *)
CodeWrappers ==
  <<NoOutputWrapper, StatusWrapper, SetupWrapper, WidgetWrapper, CapturedWrapper>>

Meets(k, source) ==
  CASE k = 1 -> has_no_output_comment(source)
    [] k = 2 -> contains_status_display(source)
    [] k = 3 -> is_import_or_setup_cell(source)
    [] k = 4 -> contains_interactive_plot(source)
    [] k = 5 -> TRUE

FirstMet(source) == CHOOSE k \in 1..5 : Meets(k, source) /\ \A j \in 1..(k - 1) : ~Meets(j, source)

IsCodeCell(cell) == cell.cell_type = "code"
FromCodeCell(cell) == \E k \in 1..5 : cell.wrapper = CodeWrappers[k]

(* the code cells the loop has passed, and the cells written for code cells *)
CodeCellsRead == SelectSeq(SubSeq(nb, 1, cell_no - 1), IsCodeCell)
CodeCellsWritten == SelectSeq(new_nb, FromCodeCell)

Carries(cell, source) ==
  IF cell.wrapper = NoOutputWrapper THEN cell.content = indent_code(source)
  ELSE IF cell.wrapper = CapturedWrapper
  THEN cell.content = indent_code(detect_and_adjust_matplotlib_code(source))
  ELSE cell.content = source

C26_OneWrapperPerCodeCell ==
  nb_pc \in {"cells", "written"} =>
    /\ Len(CodeCellsWritten) = Len(CodeCellsRead)
    /\ \A k \in 1..Len(CodeCellsRead) :
         /\ CodeCellsWritten[k].wrapper = CodeWrappers[FirstMet(CodeCellsRead[k].source)]
         /\ CodeCellsWritten[k].tags = <<"hide-input">>
         /\ Carries(CodeCellsWritten[k], CodeCellsRead[k].source)

(* a notebook was written whose first code cell has a NO OUTPUT comment and *)
(* an import, and whose second has an import and a widget                   *)
C26_Witness ==
  /\ nb_pc = "written"
  /\ Len(nb) = 2
  /\ nb[1] = [cell_type |-> "code", source |-> Chars("# no output\nimport os")]
  /\ nb[2] = [cell_type |-> "code", source |-> Chars("import ipywidgets\nThermalWidget()")]
  /\ Meets(1, nb[1].source) /\ Meets(3, nb[1].source)
  /\ Meets(3, nb[2].source) /\ Meets(4, nb[2].source)
  /\ Len(new_nb) = 5
  /\ new_nb[3].wrapper = NoOutputWrapper
  /\ new_nb[4].wrapper = SetupWrapper

====
